---- MODULE Spec2Model ----
(***************************************************************************)
(* cpp_utils::parallel / cpp_utils::synched_t  (include/parallell.hpp)     *)
(*                                                                         *)
(* One barrier (synched_t), the thread that owns it, and a bounded number  *)
(* of task wrappers (contended_caller, simple_caller and the two           *)
(* forwarded_callable classes) handed to the tbb executor.  The owner      *)
(* submits tasks, waits and finally destroys the barrier; a running        *)
(* callable may itself submit further tasks against the same barrier.      *)
(***************************************************************************)
EXTENDS Integers, FiniteSets, Sequences, TLC

\* ---------------------------------------------------------------- bounds
MaxTasks == 2          \* task wrappers ever allocated
MaxWaits == 2          \* explicit wait_for_all() calls by the owner
MaxArity == 3          \* sizeof...(parameters) of a forwarded_callable

\* ------------------------------------------------------ program constants
CopySites == 2         \* `return scope_waiter(m_sem)` and `m_sw(sb.register_lock())`
Owner == 0             \* the thread that declares the synched_t

Tasks == 1..MaxTasks
\* another thread of the program that holds a reference to the barrier
Helper == MaxTasks + 1
Threads == {Owner, Helper} \cup Tasks
Nobody == 0 - 1

VARIABLES
    m_count,     \* synched_t::m_count
    m_sem,       \* synched_t::m_sem: the value of the semaphore
    alive,       \* the synched_t object exists (~synched_t has not returned)
    st,          \* per wrapper: none, constructed, spawned, running, returned,
                 \*              threw, destroyed
    m_sw,        \* the wrappers that have a member scope_waiter m_sw
    by,          \* per wrapper under construction: the thread inside parallel(...)
    raised,      \* tracked wrappers whose callable raised out of execute()
    posts,       \* per registration: sem_post calls made by its scope_waiter objects
    invoked,     \* per wrapper: calls of m_func() / applyTuple(...)
    counter,     \* the shared counter the callables increment
    pc,          \* owner: idle, check, sem_wait, reset, gone
    i,           \* wait_for_all: the loop variable
    inDtor,      \* the running wait_for_all was called by ~synched_t
    startCount,  \* m_count when the running wait_for_all began
    preWait,     \* registrations completed before the running wait_for_all began
    epoch,       \* wait_for_all() calls that have returned
    current,     \* registrations made since m_count was last set to 0
    copies,      \* scope_waiter temporaries the build materialises per registration
    params,      \* the argument values in the hands of the caller of parallel(f, params...)
    m_parameters, \* forwarded_callable::m_parameters, the std::tuple of the wrapper
    f_args,      \* the argument list the callable f was called with
    f_calls,     \* calls of f made by applyTuple
    apc,         \* argument binding: unbound, bound, called
    mine,        \* registrations made by the owner since its last wait returned
    pc2,         \* second thread: idle, check, sem_wait, reset
    i2           \* the loop variable of the second thread's wait_for_all

vars == << m_count, m_sem, alive, st, m_sw, by, raised, posts, invoked, counter,
           pc, i, inDtor, startCount, preWait, epoch, current, copies,
           params, m_parameters, f_args, f_calls, apc, mine, pc2, i2 >>

waiterVars == << pc, i, inDtor, startCount, preWait, epoch >>

applyVars == << params, m_parameters, f_args, f_calls, apc >>

waiter2Vars == << pc2, i2 >>

Tracked(t) == t \in m_sw

\* synched_t::synched_t(), no task submitted yet
Construct ==
    /\ m_count = 0
    /\ m_sem = 0
    /\ alive = TRUE
    /\ st = [t \in Tasks |-> "none"]
    /\ m_sw = {}
    /\ by = [t \in Tasks |-> Nobody]
    /\ raised = {}
    /\ posts = [t \in Tasks |-> 0]
    /\ invoked = [t \in Tasks |-> 0]
    /\ counter = 0
    /\ pc = "idle"
    /\ i = 0
    /\ inDtor = FALSE
    /\ startCount = 0
    /\ preWait = {}
    /\ epoch = 0
    /\ current = {}
    /\ mine = {}
    /\ pc2 = "idle"
    /\ i2 = 0

\* no forwarded argument is followed
NoArguments ==
    /\ params = << >>
    /\ m_parameters = << >>
    /\ f_args = << >>
    /\ f_calls = 0
    /\ apc = "unbound"

\* A build that constructs the token in place at both copy sites (copy
\* elision: what g++ does by default and what C++17 requires).
Init == Construct /\ copies = 0 /\ NoArguments

\* Any build: each of the two copy sites may or may not materialise a
\* temporary scope_waiter (C++0x leaves the elision to the compiler).
InitCopy == Construct /\ copies \in 0..CopySites /\ NoArguments

\* ------------------------------------------------------------- scope_waiter

\* sem_post(&mr_sem), once per dying token object
sem_post(sem, n) == sem + n

\* variant: the signal is made by a call at the end of execute() instead of
\* by the destructor, so a callable that raises skips it
ScopeWaiterDtor_OnReturnOnly(t) ==
    /\ m_sem' = IF t \in raised THEN m_sem ELSE sem_post(m_sem, 1)
    /\ posts' = [posts EXCEPT ![t] = IF t \in raised THEN @ ELSE @ + 1]

\* ~scope_waiter() of the token held by wrapper t
ScopeWaiterDtor(t) ==
    /\ m_sem' = sem_post(m_sem, 1)
    /\ posts' = [posts EXCEPT ![t] = @ + 1]

\* ----------------------------------------------------------------- synched_t

\* variant: register_lock() hands out a token without counting it
AtomicIncrement_Missing(c) == c

\* variant: the registration is counted twice
AtomicIncrement_Twice(c) == c + 2

\* variant: a plain unsigned int; an increment that overlaps another thread's
\* parallel(...) writes back a stale value
AtomicIncrement_LostUpdate(c) ==
    IF \E t \in Tasks : st[t] = "constructed" THEN c ELSE c + 1

\* m_count++ on the tbb::atomic<unsigned int>: one indivisible read-modify-write
\* (the 32-bit width is never approached by MaxTasks registrations)
AtomicIncrement(c) == c + 1

\* variant: the count is not taken in the constructor of the wrapper (the
\* task is to register itself once it runs)
register_lock_Deferred(t) ==
    /\ UNCHANGED << m_count, current >>
    /\ m_sem' = sem_post(m_sem, copies)
    /\ posts' = [posts EXCEPT ![t] = @ + copies]

\* synched_t::register_lock() called for wrapper t.  Every materialised
\* temporary scope_waiter dies before the constructor of the wrapper returns,
\* and its destructor posts.
register_lock(t) ==
    /\ m_count' = AtomicIncrement(m_count)
    /\ m_sem' = sem_post(m_sem, copies)
    /\ posts' = [posts EXCEPT ![t] = @ + copies]
    /\ current' = current \cup {t}

\* ------------------------------------------------------------------ parallel

Building(s) == {t \in Tasks : st[t] = "constructed" /\ by[t] = s}

\* thread s is executing user code: the owner between two calls on the
\* barrier, another thread, or the callable of a running wrapper
CanAct(s) ==
    /\ \/ s = Owner /\ pc = "idle"
       \/ s = Helper /\ pc2 = "idle"
       \/ s \in Tasks /\ st[s] = "running"
    /\ Building(s) = {}

Free == {t \in Tasks : st[t] = "none"}

\* new (tbb::task::allocate_root()) ...: the next wrapper
NextFree == CHOOSE t \in Free : \A u \in Free : t <= u

\* variant: register_lock() takes a lock that wait_for_all() holds
TrackedCtor_Locked(s, t) ==
    /\ pc \notin {"check", "sem_wait", "reset"}
    /\ CanAct(s)
    /\ alive
    /\ Free # {} /\ t = NextFree
    /\ st' = [st EXCEPT ![t] = "constructed"]
    /\ m_sw' = m_sw \cup {t}
    /\ by' = [by EXCEPT ![t] = s]
    /\ register_lock(t)
    /\ mine' = IF s = Owner THEN mine \cup {t} ELSE mine
    /\ UNCHANGED << alive, raised, invoked, counter, waiterVars, copies, applyVars, waiter2Vars >>

\* new (allocate_root()) contended_caller<function_t>(sb, func) and
\* new (allocate_root()) forwarded_callable(sb, f, params...): the member m_sw
\* is initialised from sb.register_lock()
TrackedCtor(s, t) ==
    /\ CanAct(s)
    /\ alive
    /\ Free # {} /\ t = NextFree
    /\ st' = [st EXCEPT ![t] = "constructed"]
    /\ m_sw' = m_sw \cup {t}
    /\ by' = [by EXCEPT ![t] = s]
    /\ register_lock(t)
    /\ mine' = IF s = Owner THEN mine \cup {t} ELSE mine
    /\ UNCHANGED << alive, raised, invoked, counter, waiterVars, copies, applyVars, waiter2Vars >>

\* new (allocate_root()) simple_caller<function_t>(func) and
\* new (allocate_root()) forwarded_callable(f, params...): no member m_sw
UntrackedCtor(s, t) ==
    /\ CanAct(s)
    /\ Free # {} /\ t = NextFree
    /\ st' = [st EXCEPT ![t] = "constructed"]
    /\ by' = [by EXCEPT ![t] = s]
    /\ UNCHANGED << m_count, m_sem, alive, m_sw, raised, posts, invoked, counter,
                    waiterVars, current, copies, applyVars, mine, waiter2Vars >>

\* parallel(synched_t& sb, function_t func), first statement
ParallelSync(s) == \E t \in Tasks : TrackedCtor(s, t)

\* parallel(function_t func), first statement
ParallelSimple(s) == \E t \in Tasks : UntrackedCtor(s, t)

\* parallel(synched_t& sb, function_t f, parameters... params), first statement
ParallelSyncArgs(s) == \E t \in Tasks : TrackedCtor(s, t)

\* parallel(function_t f, parameters... params), first statement
ParallelArgs(s) == \E t \in Tasks : UntrackedCtor(s, t)

\* variant: the token is a local of parallel(...) and dies when the
\* constructor of parallel returns, not with the wrapper
Spawn_TokenLocal(s) ==
    \E t \in Building(s) :
        /\ st' = [st EXCEPT ![t] = "spawned"]
        /\ by' = [by EXCEPT ![t] = Nobody]
        /\ IF Tracked(t) THEN ScopeWaiterDtor(t) ELSE UNCHANGED << m_sem, posts >>
        /\ UNCHANGED << m_count, alive, m_sw, raised, invoked,
                        counter, waiterVars, current, copies, applyVars, mine, waiter2Vars >>

\* tbb::task::spawn(cc): the wrapper is handed to the executor
Spawn(s) ==
    \E t \in Building(s) :
        /\ st' = [st EXCEPT ![t] = "spawned"]
        /\ by' = [by EXCEPT ![t] = Nobody]
        /\ UNCHANGED << m_count, m_sem, alive, m_sw, raised, posts, invoked,
                        counter, waiterVars, current, copies, applyVars, mine, waiter2Vars >>

\* -------------------------------------------------------------- task wrappers

\* the executor calls execute(): m_func() / applyTuple(...) is entered
Execute(t) ==
    /\ st[t] = "spawned"
    /\ st' = [st EXCEPT ![t] = "running"]
    /\ invoked' = [invoked EXCEPT ![t] = @ + 1]
    /\ UNCHANGED << m_count, m_sem, alive, m_sw, by, raised, posts, counter,
                    waiterVars, current, copies, applyVars, mine, waiter2Vars >>

\* the callable completes (its side effect is done) and execute() returns NULL
Return(t) ==
    /\ st[t] = "running"
    /\ Building(t) = {}
    /\ st' = [st EXCEPT ![t] = "returned"]
    /\ counter' = counter + 1
    /\ UNCHANGED << m_count, m_sem, alive, m_sw, by, raised, posts, invoked,
                    waiterVars, current, copies, applyVars, mine, waiter2Vars >>

\* the callable raises: the exception leaves execute(), which catches nothing
Throw(t) ==
    /\ st[t] = "running"
    /\ Building(t) = {}
    /\ st' = [st EXCEPT ![t] = "threw"]
    /\ raised' = IF Tracked(t) THEN raised \cup {t} ELSE raised
    /\ UNCHANGED << m_count, m_sem, alive, m_sw, by, posts, invoked, counter,
                    waiterVars, current, copies, applyVars, mine, waiter2Vars >>

\* the executor frees a unit of work once its execute() is over
ExecutorFrees(t) == st[t] \in {"returned", "threw"}

\* variant: every wrapper class signals the barrier
DestroyTask_AlwaysPost(t) ==
    /\ ExecutorFrees(t)
    /\ st' = [st EXCEPT ![t] = "destroyed"]
    /\ ScopeWaiterDtor(t)
    /\ UNCHANGED << m_count, alive, m_sw, by, raised, invoked, counter,
                    waiterVars, current, copies, applyVars, mine, waiter2Vars >>

\* the wrapper is destroyed; its member m_sw, when it has one, is destroyed
\* with it
DestroyTask(t) ==
    /\ ExecutorFrees(t)
    /\ st' = [st EXCEPT ![t] = "destroyed"]
    /\ IF Tracked(t) THEN ScopeWaiterDtor(t) ELSE UNCHANGED << m_sem, posts >>
    /\ UNCHANGED << m_count, alive, m_sw, by, raised, invoked, counter,
                    waiterVars, current, copies, applyVars, mine, waiter2Vars >>

\* ------------------------------------------------------------- wait_for_all

Registered == {t \in Tasks : Tracked(t)}

\* wait_for_all() is entered: unsigned int i = 0
EnterWait(dtor) ==
    /\ CanAct(Owner)
    /\ alive
    /\ pc' = "check"
    /\ i' = 0
    /\ inDtor' = dtor
    /\ startCount' = m_count
    /\ preWait' = Registered
    /\ UNCHANGED << m_count, m_sem, alive, st, m_sw, by, raised, posts, invoked,
                    counter, epoch, current, copies, applyVars, mine, waiter2Vars >>

\* the owner calls wait_for_all()
WaitBegin ==
    /\ epoch < MaxWaits
    /\ EnterWait(FALSE)

\* variant: a destructor that does not wait
DestructBegin_NoWait ==
    /\ CanAct(Owner)
    /\ alive
    /\ pc' = "reset"
    /\ i' = 0
    /\ inDtor' = TRUE
    /\ startCount' = m_count
    /\ preWait' = Registered
    /\ UNCHANGED << m_count, m_sem, alive, st, m_sw, by, raised, posts, invoked,
                    counter, epoch, current, copies, applyVars, mine, waiter2Vars >>

\* the owner leaves the scope of the barrier: ~synched_t() calls wait_for_all()
DestructBegin == EnterWait(TRUE)

\* variant: the loop stops one iteration early
LoopTest_OffByOne == i + 1 < m_count

\* variant: the loop body runs before the first test
LoopTest_Inclusive == i <= m_count

\* the loop test i < m_count
LoopTest == i < m_count

WaitCheck ==
    /\ pc = "check"
    /\ pc' = IF LoopTest THEN "sem_wait" ELSE "reset"
    /\ UNCHANGED << m_count, m_sem, alive, st, m_sw, by, raised, posts, invoked,
                    counter, i, inDtor, startCount, preWait, epoch, current,
                    copies, applyVars, mine, waiter2Vars >>

\* variant: a timed wait that gives up and returns without a signal
sem_wait_ready_Timeout(sem) == TRUE

\* sem_wait(&m_sem) blocks while the semaphore is 0
sem_wait_ready(sem) == sem > 0

\* sem_wait(&m_sem); ++i
SemWait ==
    /\ pc = "sem_wait"
    /\ sem_wait_ready(m_sem)
    /\ m_sem' = m_sem - 1
    /\ i' = i + 1
    /\ pc' = "check"
    /\ UNCHANGED << m_count, alive, st, m_sw, by, raised, posts, invoked,
                    counter, inDtor, startCount, preWait, epoch, current,
                    copies, applyVars, mine, waiter2Vars >>

\* m_count = 0; wait_for_all() returns, and with it ~synched_t() when it
\* was the caller
WaitReset ==
    /\ pc = "reset"
    /\ m_count' = 0
    /\ current' = {}
    /\ epoch' = epoch + 1
    /\ pc' = IF inDtor THEN "gone" ELSE "idle"
    /\ alive' = ~inDtor
    /\ mine' = {}
    /\ UNCHANGED << m_sem, st, m_sw, by, raised, posts, invoked, counter, i,
                    inDtor, startCount, preWait, copies, applyVars, waiter2Vars >>

Next ==
    \/ \E s \in Threads : ParallelSync(s)
    \/ \E s \in Threads : ParallelSimple(s)
    \/ \E s \in Threads : ParallelSyncArgs(s)
    \/ \E s \in Threads : ParallelArgs(s)
    \/ \E s \in Threads : Spawn(s)
    \/ \E t \in Tasks : Execute(t)
    \/ \E t \in Tasks : Return(t)
    \/ \E t \in Tasks : Throw(t)
    \/ \E t \in Tasks : DestroyTask(t)
    \/ WaitBegin
    \/ DestructBegin
    \/ WaitCheck
    \/ SemWait
    \/ WaitReset

Spec == Init /\ [][Next]_vars

\* A fair executor: every spawned wrapper is run, every callable comes to an
\* end, every finished wrapper is freed; every thread that is inside
\* parallel(...) or wait_for_all() goes on when it can.
Fairness ==
    /\ \A t \in Tasks : WF_vars(Execute(t))
    /\ \A t \in Tasks : WF_vars(Return(t) \/ Throw(t))
    /\ \A t \in Tasks : WF_vars(DestroyTask(t))
    /\ \A s \in Threads : WF_vars(Spawn(s))
    /\ WF_vars(WaitCheck)
    /\ WF_vars(SemWait)
    /\ WF_vars(WaitReset)

FairSpec == Spec /\ Fairness

\* ------------------------------------------- two threads in wait_for_all()

\* the second thread calls wait_for_all() on the same barrier
HelperWaitBegin ==
    /\ CanAct(Helper)
    /\ alive
    /\ epoch < MaxWaits
    /\ pc2' = "check"
    /\ i2' = 0
    /\ UNCHANGED << m_count, m_sem, alive, st, m_sw, by, raised, posts, invoked,
                    counter, waiterVars, current, copies, applyVars, mine >>

\* its loop test i < m_count
HelperWaitCheck ==
    /\ pc2 = "check"
    /\ pc2' = IF i2 < m_count THEN "sem_wait" ELSE "reset"
    /\ UNCHANGED << m_count, m_sem, alive, st, m_sw, by, raised, posts, invoked,
                    counter, waiterVars, current, copies, applyVars, mine, i2 >>

\* its sem_wait(&m_sem); ++i
HelperSemWait ==
    /\ pc2 = "sem_wait"
    /\ sem_wait_ready(m_sem)
    /\ m_sem' = m_sem - 1
    /\ i2' = i2 + 1
    /\ pc2' = "check"
    /\ UNCHANGED << m_count, alive, st, m_sw, by, raised, posts, invoked,
                    counter, waiterVars, current, copies, applyVars, mine >>

\* its m_count = 0 and return
HelperWaitReset ==
    /\ pc2 = "reset"
    /\ m_count' = 0
    /\ current' = {}
    /\ epoch' = epoch + 1
    /\ pc2' = "idle"
    /\ UNCHANGED << m_sem, alive, st, m_sw, by, raised, posts, invoked, counter,
                    pc, i, inDtor, startCount, preWait, copies, applyVars,
                    mine, i2 >>

\* the two threads submit tracked tasks, the executor runs them, and both
\* threads wait
NextTwoWaiters ==
    \/ \E s \in {Owner, Helper} : ParallelSync(s)
    \/ \E s \in {Owner, Helper} : ParallelSyncArgs(s)
    \/ \E s \in {Owner, Helper} : Spawn(s)
    \/ \E t \in Tasks : Execute(t)
    \/ \E t \in Tasks : Return(t)
    \/ \E t \in Tasks : Throw(t)
    \/ \E t \in Tasks : DestroyTask(t)
    \/ WaitBegin
    \/ DestructBegin
    \/ WaitCheck
    \/ SemWait
    \/ WaitReset
    \/ HelperWaitBegin
    \/ HelperWaitCheck
    \/ HelperSemWait
    \/ HelperWaitReset

SpecTwoWaiters == Init /\ [][NextTwoWaiters]_vars

\* ----------------------------------------------------------- argument binding

Values == {"a", "b", "c"}

\* the argument packs of arity 0..MaxArity
Packs == UNION {[1..n -> Values] : n \in 0..MaxArity}

barrierVars == << m_count, m_sem, alive, st, m_sw, by, raised, posts, invoked,
                 counter, waiterVars, current, copies, mine, waiter2Vars >>

RECURSIVE applyTuple_Append(_, _, _)
\* variant: the element taken from the tuple is put behind the pack
applyTuple_Append(N, t, args) ==
    IF N = 0 THEN args
    ELSE applyTuple_Append(N - 1, t, args \o << t[N] >>)

RECURSIVE applyTuple(_, _, _)
\* apply_obj_func<N>::applyTuple(f, t, args...): the argument list f is called
\* with.  std::get<N-1>(t) is t[N] here; it is put in front of args...
applyTuple(N, t, args) ==
    IF N = 0 THEN args
    ELSE applyTuple(N - 1, t, << t[N] >> \o args)

\* a caller is about to call parallel(f, params...) with some argument values
InitApply ==
    /\ Construct /\ copies = 0
    /\ params \in Packs
    /\ m_parameters = << >>
    /\ f_args = << >>
    /\ f_calls = 0
    /\ apc = "unbound"

\* forwarded_callable(f, p...) : m_function(f), m_parameters(p...)
ForwardedCtor ==
    /\ apc = "unbound"
    /\ m_parameters' = params
    /\ apc' = "bound"
    /\ UNCHANGED << barrierVars, params, f_args, f_calls >>

\* between binding and invocation the caller goes on and changes its own values
CallerOverwrites ==
    /\ apc = "bound"
    /\ \E p \in Packs : Len(p) = Len(params) /\ p # params /\ params' = p
    /\ UNCHANGED << barrierVars, m_parameters, f_args, f_calls, apc >>

\* forwarded_callable::execute()
ForwardedExecute ==
    /\ apc = "bound"
    /\ f_args' = applyTuple(Len(m_parameters), m_parameters, << >>)
    /\ f_calls' = f_calls + 1
    /\ apc' = "called"
    /\ UNCHANGED << barrierVars, params, m_parameters >>

NextApply ==
    \/ ForwardedCtor
    \/ CallerOverwrites
    \/ ForwardedExecute

SpecApply == InitApply /\ [][NextApply]_vars

SpecCopy == InitCopy /\ [][Next]_vars

\* ======================================================================
\* Properties
\* ======================================================================

Destroyed(t) == st[t] = "destroyed"

\* C1: the first wait_for_all() on a fresh barrier does not return before
\* every task registered before the call has run its callable, has been
\* destroyed and has signalled; the side effects of all those callables that
\* completed are in the shared counter when the call returns.
C1_FirstWaitJoinsAll ==
    (~inDtor /\ (\/ pc = "reset" /\ epoch = 0
                 \/ pc = "idle" /\ epoch = 1))
        => /\ \A t \in preWait : Destroyed(t) /\ invoked[t] = 1 /\ posts[t] = 1
           /\ counter >= Cardinality(preWait \ raised)

C1_Witness ==
    /\ ~inDtor /\ pc = "idle" /\ epoch = 1
    /\ Cardinality(preWait) >= 2
    /\ raised = {}
    /\ counter >= 2

\* C2: when any wait_for_all() call returns, every task whose register_lock()
\* completed before the call began has completed and released its token.
C2_EveryWaitJoinsEarlier ==
    pc = "reset" => \A t \in preWait : Destroyed(t)

\* C3: when no explicit wait was called, ~synched_t() does not return before
\* every task registered before the destruction began has signalled.
C3_DestructionJoins ==
    (pc = "gone" /\ epoch = 1)
        => /\ ~alive
           /\ \A t \in preWait : Destroyed(t) /\ posts[t] = 1

C3_Witness ==
    /\ pc = "gone" /\ epoch = 1
    /\ Cardinality(preWait) >= 2

\* C4 as stated: m_count is the number of tokens issued since the last
\* completed wait minus the number of those tokens already destroyed.
C4_CountIsLiveTokens ==
    m_count = Cardinality(current) - Cardinality({t \in current : Destroyed(t)})

\* C4 amended: m_count is the number of tokens issued since the last completed
\* wait_for_all() (since construction before the first one); the destruction
\* of a token does not change it.
C4_CountIsIssuedTokens ==
    m_count = Cardinality(current)

C4_Witness ==
    /\ m_count >= 2
    /\ \E t \in current : Destroyed(t)

\* C5: a registration causes exactly one sem_post over its whole life, so no
\* registration has signalled more than once and none before its wrapper is
\* destroyed.
C5_OneSignalPerRegistration ==
    \A t \in Tasks :
        posts[t] = IF Tracked(t) /\ Destroyed(t) THEN 1 ELSE 0

C7_IterationsAreStartCount ==
    pc = "reset" => i = startCount

\* C8: every wait_for_all() call consumes exactly the signals of the tokens
\* issued since the previous call returned, and leaves m_count = 0 and the
\* semaphore empty when it returns.
C8_EachWaitDrainsItsCohort ==
    [][WaitReset => /\ i = Cardinality(current)
                    /\ \A t \in current : Destroyed(t)
                    /\ m_count' = 0
                    /\ m_sem' = 0]_vars

\* thread s is running user code (it is not inside wait_for_all)
Running(s) ==
    \/ s = Owner /\ pc \in {"idle", "gone"}
    \/ s = Helper
    \/ s \in Tasks /\ st[s] = "running"

\* C9: a thread that calls parallel(...) completes the call whatever the state
\* of the barrier and of the semaphore: constructing the wrapper (with its
\* register_lock() for a tracked one) and spawning it are always possible.
C9_SubmissionNeverBlocks ==
    \A s \in Threads :
        /\ Building(s) # {} => ENABLED Spawn(s)
        /\ (Running(s) /\ Building(s) = {} /\ Free # {} /\ alive)
             => /\ ENABLED ParallelSimple(s)
                /\ ENABLED ParallelArgs(s)
                /\ ENABLED ParallelSync(s)
                /\ ENABLED ParallelSyncArgs(s)

\* a submission is under way while the owner is blocked in sem_wait
C9_Witness ==
    /\ pc = "sem_wait" /\ m_sem = 0
    /\ \E t \in m_sw : st[t] = "constructed" /\ by[t] = Helper

\* C10: a wrapper's callable is invoked exactly once, and a tracked wrapper
\* has signalled only if that invocation is over and the wrapper destroyed.
C10_SignalAfterInvocation ==
    \A t \in Tasks :
        /\ invoked[t] = IF st[t] \in {"none", "constructed", "spawned"} THEN 0 ELSE 1
        /\ posts[t] > 0 => Destroyed(t) /\ invoked[t] = 1

C10_Witness ==
    \E t \in m_sw : Destroyed(t) /\ posts[t] = 1 /\ invoked[t] = 1

\* a token of registration t exists and has not been destroyed
LiveToken(t) == Tracked(t) /\ ~Destroyed(t)

InWait == pc \in {"check", "sem_wait", "reset"}

\* C11: a wait_for_all() (or ~synched_t()) that began after a registration
\* does not return as long as the token of that registration is not destroyed.
C11_LiveTokenBlocksWait ==
    [][(\E t \in preWait : LiveToken(t)) => ~(pc = "reset" /\ pc' # "reset")]_vars

\* C12: register_lock() calls by several threads, overlapping or not, with no
\* wait_for_all() in progress each add exactly one to m_count, and each token
\* handed out belongs to this barrier's current cohort.
C12_NoLostIncrement ==
    [][(~InWait /\ m_sw' # m_sw)
         => /\ m_count' = m_count + Cardinality(m_sw' \ m_sw)
            /\ (m_sw' \ m_sw) \subseteq current']_vars

\* two threads are inside parallel(...) at once, both registered
C12_Witness ==
    /\ ~InWait
    /\ m_count = 2
    /\ \E t, u \in m_sw : /\ t # u
                           /\ st[t] = "constructed" /\ st[u] = "constructed"
                           /\ by[t] # by[u]

\* C14: a wait_for_all() during which no token is registered since the last
\* reset makes no sem_wait call and leaves m_count at 0; it goes from the
\* first loop test straight to the return.
C14_EmptyWaitReturnsAtOnce ==
    (InWait /\ current = {})
        => /\ pc # "sem_wait"
           /\ i = 0
           /\ m_count = 0
           /\ startCount = 0

C14_Witness ==
    /\ pc = "reset" /\ current = {} /\ i = 0
    /\ epoch >= 1
    /\ m_sw # {}

\* C18: when no wait_for_all() is executing, the value of the semaphore plus
\* the number of live tokens is m_count.
C18_SemPlusLiveIsCount ==
    ~InWait => m_sem + Cardinality({t \in Tasks : LiveToken(t)}) = m_count

\* C19: once ~synched_t() has returned no live token refers to the barrier's
\* semaphore.
C19_NoTokenOutlivesBarrier ==
    ~alive => \A t \in Tasks : ~LiveToken(t)

\* C20: no step of an untracked wrapper (construction, spawn, execution,
\* destruction) changes m_count or the semaphore.
C20_UntrackedLeavesBarrier ==
    [][\A t \in Tasks : (t \notin m_sw' /\ st'[t] # st[t])
                            => (m_count' = m_count /\ m_sem' = m_sem)]_vars

\* an untracked task has come and gone while the owner stays blocked
C20_Witness ==
    /\ pc = "sem_wait" /\ m_sem = 0 /\ m_count = 1
    /\ \E t \in Tasks : t \notin m_sw /\ Destroyed(t)

\* C13: the callable is called once, with exactly the values that were bound,
\* in their positions, for every arity 0..MaxArity and whatever the caller
\* did to its own values in between.
C13_ArgumentsInOrder ==
    /\ apc = "called" => (f_calls = 1 /\ f_args = m_parameters)
    /\ apc # "called" => f_calls = 0
    /\ apc # "unbound" => Len(m_parameters) = Len(params)

C13_Witness ==
    /\ apc = "called"
    /\ f_args = << "a", "b", "c" >>
    /\ params # m_parameters

\* C15: the increment of m_count for a tracked task is made by the
\* submitting thread inside parallel(...), before spawn: every task the owner
\* has submitted since its last wait is in m_count, no task of the cohort has
\* been handed to the executor or has signalled without being counted, and
\* a wait_for_all() the owner then calls starts from a count that includes
\* them all.
C15_RegisteredBeforeSpawn ==
    /\ mine \subseteq current
    /\ Cardinality(mine) <= m_count
    /\ InWait => Cardinality(mine) <= startCount
    /\ \A t \in m_sw : (st[t] # "none" /\ t \notin current) => epoch > 0

C15_Witness ==
    /\ InWait
    /\ Cardinality(mine) >= 2
    /\ startCount >= 2
    /\ \E t \in mine : Destroyed(t) /\ posts[t] = 1

\* every token ever issued has been destroyed and the semaphore is empty
AllReleased ==
    /\ m_sw # {}
    /\ \A t \in Tasks : ~LiveToken(t)
    /\ m_sem = 0

\* C16: with two threads in wait_for_all() on one barrier, a waiter that sits
\* in sem_wait when every token has been released and every signal consumed
\* stays there: no step wakes it, gives it an error or lets it return, unless
\* a new token is registered first.
C16_HangIsPermanent ==
    [][/\ (pc = "sem_wait" /\ AllReleased /\ m_sw' = m_sw) => pc' = "sem_wait"
       /\ (pc2 = "sem_wait" /\ AllReleased /\ m_sw' = m_sw) => pc2' = "sem_wait"]_vars

\* both threads entered the loop on the same m_count = 1; one consumed the
\* only signal and returned, the other is blocked for good
C16_Witness ==
    /\ pc2 = "sem_wait" /\ i2 = 0
    /\ pc = "idle" /\ epoch = 1 /\ i = 1 /\ startCount = 1
    /\ Cardinality(m_sw) = 1
    /\ AllReleased

\* C17: with a single waiter and a fair executor every wait_for_all() call
\* returns, also when tasks register further tasks while the loop runs.
C17_WaitReturns == InWait ~> ~InWait

\* the loop of this call ran longer than m_count was when it began
C17_Witness ==
    /\ pc = "reset"
    /\ startCount = 1
    /\ i = 2

TypeOK ==
    /\ m_count \in 0..MaxTasks
    /\ m_sem \in 0..(MaxTasks * (CopySites + 1))
    /\ pc \in {"idle", "check", "sem_wait", "reset", "gone"}

====
